---- MODULE Spec2Model ----
(***************************************************************************)
(* Two-stage retrieval of anti-viral compound files.                       *)
(*   Stage 1  AntiViral_Compound_Link_Extraction.py : process_ids reads a  *)
(*            list of compound ids, resolves each to a 'mol-file' URL and  *)
(*            writes one link record {id}.txt per resolved id.             *)
(*   Stage 2  Antiviral_Compounds_Download.py : main enumerates the .txt   *)
(*            link records, downloads each URL to {id}.mol on a thread     *)
(*            pool (download_molecule retries with exponential backoff),   *)
(*            counts the outcomes and writes download_summary.txt.         *)
(* Time is counted in ticks, TicksPerSecond ticks to the second.           *)
(***************************************************************************)
EXTENDS Integers, Sequences, FiniteSets, TLC

\* ---------------------------------------------------------------- constants
MAX_RETRIES == 3
MAX_WORKERS == 5

\* ------------------------------------------------------------------- bounds
MaxLines == 3
TicksPerSecond == 2
BodyBytes == 40
PartialBytes == 8
MaxRuns == 2

\* ------------------------------------------------------------------- values
Ids == {"id1", "id2"}
SummaryStem == "download_summary"
Items == Ids \cup {SummaryStem}

TxtExt == ".txt"
MolExt == ".mol"
NoExt == ""

NoFile == "<no file>"
NoUrl == ""
SummaryText == "Total files processed: ..."
UrlOf(id) == IF id = "id1" THEN "https://x/a.mol" ELSE IF id = "id2" THEN "https://x/b.mol" ELSE "https://x/c.mol"
Urls == {UrlOf(id) : id \in Ids}

\* a raw line of the id file: the identifier text, with or without surrounding blanks
RawLines == [text : Ids \cup {""}, padded : BOOLEAN]
\* str.strip()
Strip(line) == line.text

RECURSIVE Pow2(_)
Pow2(n) == IF n = 0 THEN 1 ELSE 2 * Pow2(n - 1)

\* os.path.basename(file_path) of a link record
FileName(item) == [stem |-> item, ext |-> TxtExt]
\* os.path.splitext(file_name)[0]
SplitExt0(name) == [stem |-> name.stem, ext |-> NoExt]
Identifier(item) == [stem |-> item, ext |-> NoExt]

NoResult == [done |-> FALSE, compound_id |-> Identifier(""), success |-> FALSE]
NoMol == [exists |-> FALSE, size |-> 0]
NoSummary == [exists |-> FALSE, total |-> 0, successful |-> 0, failed |-> 0]

\* What one attempt (requests.get, then the streaming of the body) can meet.
\*   status : HTTP status of the response (0: none arrived)
\*   body   : bytes the server sends
\*   cut    : bytes that arrive before the stream ends or breaks
\*   fault  : "none"
\*            "connect"  requests.get raises (timeout, refused, invalid URL)
\*            "stream"   iter_content raises after cut bytes (connection broken)
\*            "open"     the destination cannot be opened for writing
Resp(status, body, cut, fault) == [status |-> status, body |-> body, cut |-> cut, fault |-> fault]
NoResp == Resp(0, 0, 0, "unset")
Ok200 == Resp(200, BodyBytes, BodyBytes, "none")
Empty200 == Resp(200, 0, 0, "none")
Cut200 == Resp(200, BodyBytes, PartialBytes, "stream")
Cut200AtStart == Resp(200, BodyBytes, 0, "stream")
Open200 == Resp(200, BodyBytes, 0, "open")
Http203 == Resp(203, BodyBytes, BodyBytes, "none")
Http404 == Resp(404, 0, 0, "none")
ConnectError == Resp(0, 0, 0, "connect")

HttpResponses ==
    {Ok200, Empty200, Cut200, Cut200AtStart, Open200, Http203, Http404, ConnectError}
\* a text that is no URL makes requests.get raise MissingSchema, a RequestException
Responses(u) == IF u \in Urls THEN HttpResponses ELSE {ConnectError}

\* The remote as a script: the response to the k-th request for an item. The empty
\* script is the unscripted remote, which may answer anything.
Repeat4(r) == <<r, r, r, r>>
Scripts ==
    {Repeat4(Ok200), Repeat4(Empty200), Repeat4(Http404), Repeat4(Cut200),
     <<ConnectError, Ok200, Ok200, Ok200>>,
     <<Cut200, Http203, Empty200, Ok200>>,
     <<Http404, ConnectError, Cut200AtStart, Ok200>>,
     <<Cut200, Cut200, Open200, Ok200>>}

\* random.random() is in [0, 1): the least and the greatest jitter, in ticks
Jitter == {0, TicksPerSecond - 1}

VARIABLES
    \* stage 1 (idFile: the lines of the id file not yet read)
    idFile, xpc, ids, idx, link_successful, link_failed, resolved,
    \* the shared directory
    linkDir, mol, summaryFile,
    \* stage 2, main thread
    mainPc, max_workers, link_files, total_files, successful_downloads,
    failed_downloads, pbar,
    \* stage 2, one task per link file
    pc, url, retries, attempts, waits, lastResp, success, result,
    \* stage 2, counted per task: rate-limiter sleeps, workers that took the task
    throttles, claims,
    \* the remote, whether OUTPUT_DIRECTORY can be written, the number of the
    \* run of main, and the destinations as that run found them
    script, outputWritable, run, prior

xvars == <<idFile, xpc, ids, idx, link_successful, link_failed, resolved>>
dirvars == <<linkDir, mol, summaryFile>>
mainvars == <<mainPc, max_workers, link_files, total_files, successful_downloads,
              failed_downloads, pbar>>
taskvars == <<pc, url, retries, attempts, waits, lastResp, success, result,
              throttles, claims>>
envvars == <<script, outputWritable, run, prior>>
vars == <<xvars, dirvars, mainvars, taskvars, envvars>>

RECURSIVE SeqsUpTo(_)
SeqsUpTo(n) ==
    IF n = 0 THEN {<<>>}
    ELSE LET shorter == SeqsUpTo(n - 1)
         IN shorter \cup {Append(s, l) : s \in shorter, l \in RawLines}

\* unique_ids.txt: no identifier twice
UniqueIds(s) ==
    \A a, b \in 1 .. Len(s) : (a # b /\ s[a].text # "") => s[a].text # s[b].text

IdFiles == {s \in SeqsUpTo(MaxLines) : UniqueIds(s)}

\* everything but the id file and the remote; the pool is configured with
\* MAX_WORKERS workers, or with a single one
InitRest ==
    /\ xpc = "start"
    /\ ids = <<>>
    /\ idx = 0
    /\ link_successful = 0
    /\ link_failed = 0
    /\ resolved = [i \in Ids |-> "unseen"]
    /\ linkDir = [i \in Ids |-> NoFile]
    /\ mol = [i \in Items |-> NoMol]
    /\ summaryFile = NoSummary
    /\ mainPc = "idle"
    /\ max_workers \in {1, MAX_WORKERS}
    /\ link_files = {}
    /\ total_files = 0
    /\ successful_downloads = 0
    /\ failed_downloads = 0
    /\ pbar = 0
    /\ pc = [i \in Items |-> "none"]
    /\ url = [i \in Items |-> NoUrl]
    /\ retries = [i \in Items |-> 0]
    /\ attempts = [i \in Items |-> 0]
    /\ waits = [i \in Items |-> <<>>]
    /\ lastResp = [i \in Items |-> NoResp]
    /\ success = [i \in Items |-> FALSE]
    /\ result = [i \in Items |-> NoResult]
    /\ throttles = [i \in Items |-> 0]
    /\ claims = [i \in Items |-> 0]
    /\ run = 1
    /\ prior = [i \in Items |-> NoMol]

Init ==
    /\ idFile \in IdFiles
    /\ script = [i \in Items |-> <<>>]
    /\ outputWritable = TRUE
    /\ InitRest

\* ------------------------------------------------------------------ stage 1
\* process_ids up to the loop: read and strip the lines, start the WebDriver
ExtractStart ==
    /\ xpc = "start"
    /\ \E driverOk \in BOOLEAN :
          IF driverOk
          THEN /\ ids' = [k \in 1 .. Len(idFile) |-> Strip(idFile[k])]
               /\ xpc' = "loop"
          ELSE /\ ids' = <<>>
               /\ xpc' = "done"
    /\ idFile' = <<>>
    /\ UNCHANGED <<idx, link_successful, link_failed, resolved>>
    /\ UNCHANGED <<dirvars, mainvars, taskvars, envvars>>

\* if link_url:
HasLink_Always(link_url) == TRUE
HasLink(link_url) == link_url # NoUrl

\* file.write(link_url): the text of the link record {compound_id}.txt
RecordText_Id(compound_id, link_url) == compound_id
RecordText(compound_id, link_url) == link_url

\* one iteration of the loop over ids
ExtractStep ==
    /\ xpc = "loop"
    /\ idx < Len(ids)
    /\ idx' = idx + 1
    /\ LET compound_id == ids[idx + 1]
       IN IF compound_id = ""
          THEN UNCHANGED <<link_successful, link_failed, resolved, linkDir>>
          ELSE \E link_url \in {UrlOf(compound_id), NoUrl}, writeOk \in BOOLEAN :
                  /\ resolved' = [resolved EXCEPT ![compound_id] =
                                     IF link_url # NoUrl THEN "url" ELSE "notfound"]
                  /\ IF HasLink(link_url)
                     THEN IF writeOk
                          THEN /\ linkDir' = [linkDir EXCEPT ![compound_id] =
                                                RecordText(compound_id, link_url)]
                               /\ link_successful' = link_successful + 1
                               /\ link_failed' = link_failed
                          ELSE /\ link_failed' = link_failed + 1
                               /\ UNCHANGED <<linkDir, link_successful>>
                     ELSE /\ link_failed' = link_failed + 1
                          /\ UNCHANGED <<linkDir, link_successful>>
    /\ UNCHANGED <<idFile, xpc, ids, mol, summaryFile>>
    /\ UNCHANGED <<mainvars, taskvars, envvars>>

\* the loop is over: summary logged, driver.quit(), process_ids returns
ExtractEnd ==
    /\ xpc = "loop"
    /\ idx = Len(ids)
    /\ xpc' = "done"
    /\ ids' = <<>>
    /\ idx' = 0
    /\ UNCHANGED <<idFile, link_successful, link_failed, resolved>>
    /\ UNCHANGED <<dirvars, mainvars, taskvars, envvars>>

\* ------------------------------------------------------------------ stage 2
\* os.listdir(LINKS_DIRECTORY); OUTPUT_DIRECTORY is the same directory
DirListing ==
    {FileName(i) : i \in {j \in Ids : linkDir[j] # NoFile}}
    \cup {[stem |-> i, ext |-> MolExt] : i \in {j \in Items : mol[j].exists}}
    \cup (IF summaryFile.exists THEN {FileName(SummaryStem)} ELSE {})

\* the link_files comprehension: the names ending in .txt
TxtFiles == {n.stem : n \in {m \in DirListing : m.ext = TxtExt}}

\* f.read() of a link file
Content(item) == IF item \in Ids THEN linkDir[item] ELSE SummaryText

\* the tasks a worker thread is executing
Running == {i \in Items : pc[i] \in {"throttle", "request", "backoff", "validate"}}

\* main up to the submission of every link file to the executor
StartMain ==
    /\ xpc = "done"
    /\ mainPc = "idle"
    /\ \E listOk \in BOOLEAN :
          IF ~listOk
          THEN /\ mainPc' = "aborted"
               /\ UNCHANGED <<link_files, total_files, pc>>
          ELSE /\ link_files' = TxtFiles
               /\ total_files' = Cardinality(TxtFiles)
               /\ IF Cardinality(TxtFiles) = 0
                  THEN /\ mainPc' = "empty"
                       /\ pc' = pc
                  ELSE /\ mainPc' = "pool"
                       /\ pc' = [i \in Items |-> IF i \in TxtFiles THEN "queued" ELSE pc[i]]
    /\ UNCHANGED <<max_workers, successful_downloads, failed_downloads, pbar>>
    /\ UNCHANGED <<url, retries, attempts, waits, lastResp, success, result,
                   throttles, claims>>
    /\ UNCHANGED <<xvars, dirvars, envvars>>

\* what process_link_file returns
Returned(cid, ok) == [done |-> TRUE, compound_id |-> cid, success |-> ok]

\* the identifier process_link_file returns when it raises
IdOnError(file_name) == file_name

\* the stem of the destination {compound_id}.mol
OutputPath_Shared(i) == "id1"
OutputPath(i) == SplitExt0(FileName(i)).stem

\* ThreadPoolExecutor(max_workers): a queued task starts when a worker is free
WorkerFree_Always == TRUE
WorkerFree_AfterFailure == Cardinality(Running) < max_workers /\ \A j \in Items : result[j].done => result[j].success
WorkerFree == Cardinality(Running) < max_workers

\* a free worker takes the task: process_link_file up to the call of download_molecule
StartTask(i) ==
    /\ pc[i] = "queued"
    /\ WorkerFree
    /\ \E readOk \in BOOLEAN :
          IF ~readOk
          THEN /\ result' = [result EXCEPT ![i] = Returned(IdOnError(FileName(i)), FALSE)]
               /\ pc' = [pc EXCEPT ![i] = "returned"]
               /\ url' = url
          ELSE IF Content(i) = NoUrl
               THEN /\ result' = [result EXCEPT ![i] = Returned(SplitExt0(FileName(i)), FALSE)]
                    /\ pc' = [pc EXCEPT ![i] = "returned"]
                    /\ url' = url
               ELSE /\ url' = [url EXCEPT ![i] = Content(i)]
                    /\ pc' = [pc EXCEPT ![i] = "throttle"]
                    /\ result' = result
    /\ claims' = [claims EXCEPT ![i] = @ + 1]
    /\ UNCHANGED <<retries, attempts, waits, lastResp, success, throttles>>
    /\ UNCHANGED <<xvars, dirvars, mainvars, envvars>>

\* download_molecule: time.sleep(random.uniform(*REQUEST_DELAY))
Throttle(i) ==
    /\ pc[i] = "throttle"
    /\ pc' = [pc EXCEPT ![i] = "request"]
    /\ throttles' = [throttles EXCEPT ![i] = @ + 1]
    /\ UNCHANGED <<url, retries, attempts, waits, lastResp, success, result, claims>>
    /\ UNCHANGED <<xvars, dirvars, mainvars, envvars>>

\* retries < MAX_RETRIES
MayRetry_OffByOne(r) == r <= MAX_RETRIES
MayRetry(r) == r < MAX_RETRIES

\* response.status_code == 200
IsOk_AnySuccess(status) == status \in 200 .. 299
IsOk(status) == status = 200

\* where the attempt leaves download_molecule: "True", "False" or "retry"
AttemptExit_RetryOnError(resp, r) ==
    IF resp.fault = "connect" THEN (IF MayRetry(r) THEN "retry" ELSE "False")
    ELSE IF IsOk(resp.status)
         THEN (IF resp.fault \in {"open", "stream"}
               THEN (IF MayRetry(r) THEN "retry" ELSE "False")
               ELSE "True")
         ELSE (IF MayRetry(r) THEN "retry" ELSE "False")
AttemptExit_NotFoundFinal(resp, r) ==
    IF resp.fault = "connect" THEN (IF MayRetry(r) THEN "retry" ELSE "False")
    ELSE IF IsOk(resp.status)
         THEN (IF resp.fault = "open" THEN "False"
               ELSE IF resp.fault = "stream" THEN (IF MayRetry(r) THEN "retry" ELSE "False")
               ELSE "True")
         ELSE (IF MayRetry(r) /\ resp.status # 404 THEN "retry" ELSE "False")
AttemptExit(resp, r) ==
    IF resp.fault = "connect" THEN (IF MayRetry(r) THEN "retry" ELSE "False")
    ELSE IF IsOk(resp.status)
         THEN (IF resp.fault = "open" THEN "False"
               ELSE IF resp.fault = "stream" THEN (IF MayRetry(r) THEN "retry" ELSE "False")
               ELSE "True")
         ELSE (IF MayRetry(r) THEN "retry" ELSE "False")

\* the destination after the attempt: open(output_path, 'wb') and the chunks written
Written_Append(old, resp) ==
    IF resp.fault \notin {"connect", "open"} /\ IsOk(resp.status)
    THEN [exists |-> TRUE, size |-> old.size + resp.cut]
    ELSE old
Written(old, resp) ==
    IF resp.fault \notin {"connect", "open"} /\ IsOk(resp.status)
    THEN [exists |-> TRUE, size |-> resp.cut]
    ELSE old

\* the responses the remote may give to the next request of task i
Offered(i) ==
    IF script[i] = <<>> \/ url[i] \notin Urls THEN Responses(url[i])
    ELSE {script[i][IF attempts[i] < Len(script[i]) THEN attempts[i] + 1 ELSE Len(script[i])]}

\* where download_molecule goes on after the attempt: a retry sleeps its backoff
\* before the call calls itself, any other exit returns to process_link_file
AfterAttempt_NoBackoff(exit) == IF exit = "retry" THEN "throttle" ELSE "validate"
AfterAttempt(exit) == IF exit = "retry" THEN "backoff" ELSE "validate"

\* what the attempt makes of a response: open(output_path, 'wb') raises where
\* OUTPUT_DIRECTORY cannot be written, whatever the remote has sent
AtDestination(resp) ==
    IF outputWritable \/ resp.fault = "connect" \/ ~IsOk(resp.status) THEN resp
    ELSE [resp EXCEPT !.cut = 0, !.fault = "open"]

\* download_molecule: requests.get, the status test, the streaming of the body
Request(i) ==
    /\ pc[i] = "request"
    /\ \E resp \in {AtDestination(offered) : offered \in Offered(i)} :
          /\ lastResp' = [lastResp EXCEPT ![i] = resp]
          /\ mol' = [mol EXCEPT ![OutputPath(i)] = Written(@, resp)]
          /\ LET exit == AttemptExit(resp, retries[i])
             IN /\ pc' = [pc EXCEPT ![i] = AfterAttempt(exit)]
                /\ success' = [success EXCEPT ![i] = (exit = "True")]
    /\ attempts' = [attempts EXCEPT ![i] = @ + 1]
    /\ UNCHANGED <<url, retries, waits, result, throttles, claims>>
    /\ UNCHANGED <<xvars, linkDir, summaryFile, mainvars, envvars>>

\* (2 ** retries) + random.random(), in ticks
BackoffDelay_Linear(r, jitter) == TicksPerSecond * 2 * r + jitter
BackoffDelay(r, jitter) == TicksPerSecond * Pow2(r) + jitter

\* the recursive call starts, like every call, with the rate-limiter sleep
AfterBackoff_NoThrottle == "request"
AfterBackoff == "throttle"

\* download_molecule: the backoff sleep, then the recursive call with retries + 1;
\* the new call has no response yet
Backoff(i) ==
    /\ pc[i] = "backoff"
    /\ \E jitter \in Jitter :
          waits' = [waits EXCEPT ![i] = Append(@, BackoffDelay(retries[i], jitter))]
    /\ retries' = [retries EXCEPT ![i] = @ + 1]
    /\ lastResp' = [lastResp EXCEPT ![i] = NoResp]
    /\ pc' = [pc EXCEPT ![i] = AfterBackoff]
    /\ UNCHANGED <<url, attempts, success, result, throttles, claims>>
    /\ UNCHANGED <<xvars, dirvars, mainvars, envvars>>

\* success and os.path.exists(output_path) and os.path.getsize(output_path) > 0
ValidDownload_NoSizeCheck(ok, file) == ok /\ file.exists
ValidDownload(ok, file) == ok /\ file.exists /\ file.size > 0

\* os.path.exists(output_path) and os.path.getsize(output_path) == 0
IsEmptyFile(file) == file.exists /\ file.size = 0

\* process_link_file after download_molecule has returned
ProcessReturn(i) ==
    /\ pc[i] = "validate"
    /\ IF ValidDownload(success[i], mol[OutputPath(i)])
       THEN /\ result' = [result EXCEPT ![i] = Returned(SplitExt0(FileName(i)), TRUE)]
            /\ mol' = mol
       ELSE /\ result' = [result EXCEPT ![i] = Returned(SplitExt0(FileName(i)), FALSE)]
            /\ mol' = [mol EXCEPT ![OutputPath(i)] = IF IsEmptyFile(@) THEN NoMol ELSE @]
    /\ pc' = [pc EXCEPT ![i] = "returned"]
    /\ UNCHANGED <<url, retries, attempts, waits, lastResp, success, throttles, claims>>
    /\ UNCHANGED <<xvars, linkDir, summaryFile, mainvars, envvars>>

\* if success: successful_downloads += 1, else: failed_downloads += 1
Tally_Both(ok, succeeded, failed) == <<succeeded + 1, IF ok THEN failed ELSE failed + 1>>
Tally(ok, succeeded, failed) ==
    IF ok THEN <<succeeded + 1, failed>> ELSE <<succeeded, failed + 1>>

\* main: one iteration of the as_completed loop; the finished call of
\* process_link_file leaves nothing behind but its result
Collect(i) ==
    /\ mainPc = "pool"
    /\ pc[i] = "returned"
    /\ LET tally == Tally(result[i].success, successful_downloads, failed_downloads)
       IN /\ successful_downloads' = tally[1]
          /\ failed_downloads' = tally[2]
    /\ pbar' = pbar + 1
    /\ pc' = [pc EXCEPT ![i] = "collected"]
    /\ url' = [url EXCEPT ![i] = NoUrl]
    /\ retries' = [retries EXCEPT ![i] = 0]
    /\ attempts' = [attempts EXCEPT ![i] = 0]
    /\ waits' = [waits EXCEPT ![i] = <<>>]
    /\ lastResp' = [lastResp EXCEPT ![i] = NoResp]
    /\ success' = [success EXCEPT ![i] = FALSE]
    /\ throttles' = [throttles EXCEPT ![i] = 0]
    /\ UNCHANGED <<mainPc, max_workers, link_files, total_files, result, claims>>
    /\ UNCHANGED <<xvars, dirvars, envvars>>

\* as_completed is exhausted: every future has been collected
PoolDrained_First == \E i \in link_files : pc[i] = "collected"
PoolDrained == \A i \in link_files : pc[i] = "collected"

\* whether open(summary_path, 'w') and the writes succeed
SummaryWrites == IF outputWritable THEN BOOLEAN ELSE {FALSE}

\* main after the pool has drained: the tally is logged and download_summary.txt written
WriteSummary ==
    /\ mainPc = "pool"
    /\ PoolDrained
    /\ \E writeOk \in SummaryWrites :
          IF writeOk
          THEN /\ summaryFile' = [exists |-> TRUE, total |-> total_files,
                                  successful |-> successful_downloads,
                                  failed |-> failed_downloads]
               /\ mainPc' = "done"
          ELSE /\ summaryFile' = summaryFile
               /\ mainPc' = "unwritten"
    /\ UNCHANGED <<max_workers, link_files, total_files, successful_downloads,
                   failed_downloads, pbar>>
    /\ UNCHANGED <<xvars, linkDir, mol, taskvars, envvars>>

Next ==
    \/ ExtractStart
    \/ ExtractStep
    \/ ExtractEnd
    \/ StartMain
    \/ \E i \in Items : StartTask(i)
    \/ \E i \in Items : Throttle(i)
    \/ \E i \in Items : Request(i)
    \/ \E i \in Items : Backoff(i)
    \/ \E i \in Items : ProcessReturn(i)
    \/ \E i \in Items : Collect(i)
    \/ WriteSummary

Spec == Init /\ [][Next]_vars

\* ------------------------------------------------------------------- claims
\* main has left the pool: every future was collected
Drained == mainPc \in {"done", "unwritten"}

\* download_molecule has returned to process_link_file
FetchReturned(i) == pc[i] \in {"validate", "returned"}

\* the last response was a non-success status or a network-level error
TransientFailure(resp) ==
    \/ resp.fault \in {"connect", "stream"}
    \/ resp.fault = "none" /\ resp.status # 200

RECURSIVE SumSeq(_)
SumSeq(s) == IF s = <<>> THEN 0 ELSE Head(s) + SumSeq(Tail(s))

\* C1: after the pool has drained exactly N outcomes have been recorded, one per
\* link file, and each carries the identifier of its link file (the name without
\* extension) exactly once, whatever the items met.
C1_OneOutcomePerItem ==
    Drained =>
        /\ pbar = Cardinality(link_files)
        /\ \A i \in link_files :
              /\ result[i].done
              /\ Cardinality({j \in link_files : result[j].compound_id = Identifier(i)}) = 1

\* C2: once an item's outcome has been recorded, {identifier}.mol exists if and
\* only if the outcome is a success with more than zero bytes written.
C2_ArtifactIffSuccess ==
    \A i \in Items :
        pc[i] = "collected" =>
            (mol[i].exists <=> (result[i].success /\ mol[i].size > 0))

\* C3: no fetch makes more than MAX_RETRIES + 1 request attempts, and a fetch whose
\* every attempt failed with a non-success status or a network-level error has made
\* exactly MAX_RETRIES + 1 attempts when it returns, and returns False.
C3_RetriesExhausted ==
    \A i \in Items :
        /\ attempts[i] <= MAX_RETRIES + 1
        /\ (FetchReturned(i) /\ TransientFailure(lastResp[i])) =>
              (attempts[i] = MAX_RETRIES + 1 /\ ~success[i])

C3_Witness ==
    \E i \in Items :
        /\ pc[i] = "validate"
        /\ lastResp[i] = Http404
        /\ attempts[i] = MAX_RETRIES + 1
        /\ ~success[i]

\* C4: a fetch that failed K times and then received a 200 response with a non-empty
\* body has made exactly K + 1 attempts and is a success; its i-th backoff wait
\* (i = 0 .. K-1) lasted at least 2^i seconds, so the waits add up to at least
\* 2^0 + ... + 2^(K-1) seconds.
C4_SuccessAfterRetries ==
    \A i \in Items :
        (FetchReturned(i) /\ lastResp[i] = Ok200) =>
            /\ success[i]
            /\ ValidDownload(success[i], mol[i])
            /\ pc[i] = "returned" => result[i].success
            /\ Len(waits[i]) = retries[i]
            /\ attempts[i] = Len(waits[i]) + 1
            /\ \A k \in 1 .. Len(waits[i]) : waits[i][k] >= TicksPerSecond * Pow2(k - 1)
            /\ SumSeq(waits[i]) >= TicksPerSecond * (Pow2(Len(waits[i])) - 1)

C4_Witness ==
    \E i \in Items :
        /\ pc[i] = "returned"
        /\ lastResp[i] = Ok200
        /\ result[i].success
        /\ attempts[i] = 3
        /\ Len(waits[i]) = 2

\* C5: a 200 response with a zero-byte body is not retried, the item is reported
\* as failed and the zero-byte destination file is removed.
C5_EmptyBodyFails ==
    \A i \in Items :
        lastResp[i] = Empty200 =>
            /\ pc[i] \in {"validate", "returned"}
            /\ attempts[i] = retries[i] + 1
            /\ pc[i] = "returned" => (~result[i].success /\ ~mol[i].exists)

C5_Witness ==
    \E i \in Items :
        /\ pc[i] = "returned"
        /\ lastResp[i] = Empty200
        /\ attempts[i] = 1
        /\ ~result[i].success
        /\ ~mol[i].exists

\* an attempt has ended and its response is at hand
AttemptEnded(i) == pc[i] \in {"backoff", "validate"}

\* the attempt is the one that makes the item a success
CountsAsSuccess(i) == pc[i] = "validate" /\ ValidDownload(success[i], mol[i])

\* C6 as claimed: an attempt counts as successful exactly when the status is in
\* the success class (any 2xx) and the resulting artifact has size greater than zero.
C6_SuccessClass ==
    \A i \in Items :
        AttemptEnded(i) =>
            (CountsAsSuccess(i) <=>
                (lastResp[i].status \in 200 .. 299 /\ mol[i].exists /\ mol[i].size > 0))

\* C6 as amended: an attempt counts as successful exactly when the status is 200,
\* the body was streamed to the destination without an error and the resulting
\* artifact has size greater than zero; every other response is a failed attempt.
C6_Status200 ==
    \A i \in Items :
        AttemptEnded(i) =>
            (CountsAsSuccess(i) <=>
                (lastResp[i].status = 200 /\ lastResp[i].fault = "none"
                 /\ mol[i].exists /\ mol[i].size > 0))

C6_Witness ==
    \E i, j \in Items :
        /\ pc[i] = "validate" /\ lastResp[i] = Ok200 /\ CountsAsSuccess(i)
        /\ pc[j] = "backoff" /\ lastResp[j] = Http203 /\ mol[j].size > 0

\* the identifiers with a link record
Linked == {id \in Ids : linkDir[id] # NoFile}
NotFound == {id \in Ids : resolved[id] = "notfound"}

\* C7 as claimed: an identifier the resolver reports NotFound is counted in the
\* run summary's total and in its failed count.
C7_NotFoundInSummary ==
    mainPc = "done" =>
        /\ summaryFile.total = Cardinality(Linked \cup NotFound)
        /\ summaryFile.failed >= Cardinality(NotFound)

\* C7 as amended: an identifier the resolver reports NotFound is counted as failed
\* by the link-extraction stage, gets no link record, and the download run neither
\* makes a fetch attempt for it nor counts it: the summary's total is the number
\* of link records, and succeeded and failed count those alone.
C7_NotFoundOnlyInStage1 ==
    /\ \A id \in NotFound :
          /\ linkDir[id] = NoFile
          /\ id \notin link_files
          /\ pc[id] = "none" /\ attempts[id] = 0 /\ ~mol[id].exists
    /\ link_failed = Cardinality({id \in Ids : resolved[id] # "unseen" /\ linkDir[id] = NoFile})
    /\ mainPc \in {"pool", "empty", "done", "unwritten"} => total_files = Cardinality(Linked)
    /\ mainPc = "done" =>
          /\ summaryFile.total = Cardinality(Linked)
          /\ summaryFile.successful = Cardinality({i \in link_files : result[i].success})
          /\ summaryFile.failed = Cardinality({i \in link_files : ~result[i].success})

C7_Witness ==
    /\ mainPc = "done"
    /\ resolved = [id \in Ids |-> IF id = "id1" THEN "url" ELSE "notfound"]
    /\ link_failed = 1
    /\ summaryFile = [exists |-> TRUE, total |-> 1, successful |-> 1, failed |-> 0]
    /\ mol["id1"] = [exists |-> TRUE, size |-> BodyBytes]
    /\ ~mol["id2"].exists

\* main has returned after an enumeration that succeeded
RunEnded == mainPc \in {"empty", "done", "unwritten"}

\* C8 as claimed: every run whose enumeration succeeds, for N >= 0 items, ends
\* with one persisted summary in which total = N = succeeded + failed.
C8_SummaryAlways ==
    (RunEnded /\ mainPc # "unwritten") =>
        /\ summaryFile.exists
        /\ summaryFile.total = Cardinality(link_files)
        /\ summaryFile.total = summaryFile.successful + summaryFile.failed

\* C8 as amended: a run whose enumeration finds N >= 1 link files ends by writing
\* the summary once, after the last outcome has been recorded, with
\* total = N = succeeded + failed (or by logging that the summary could not be
\* written); a run that finds no link file returns without writing a summary.
C8_SummaryWhenNonEmpty ==
    /\ mainPc = "done" =>
          /\ summaryFile.exists
          /\ summaryFile.total = Cardinality(link_files)
          /\ summaryFile.total = summaryFile.successful + summaryFile.failed
          /\ summaryFile.total >= 1
          /\ pbar = summaryFile.total
          /\ \A i \in link_files : pc[i] = "collected"
    /\ mainPc # "done" => ~summaryFile.exists
    /\ mainPc = "empty" <=> (RunEnded /\ link_files = {})
    /\ mainPc = "unwritten" => \A i \in link_files : pc[i] = "collected"

C8_Witness ==
    /\ mainPc = "done"
    /\ summaryFile = [exists |-> TRUE, total |-> 2, successful |-> 1, failed |-> 1]

\* ------------------------------------------------- the remote as a script
\* a run over the two identifiers in which the remote answers each item by a script
InitScripted ==
    /\ idFile = <<[text |-> "id1", padded |-> FALSE], [text |-> "id2", padded |-> TRUE]>>
    /\ script \in {f \in [Items -> Scripts \cup {<<>>}] :
                      (f[SummaryStem] = <<>>) /\ (\A id \in Ids : f[id] # <<>>)}
    /\ outputWritable = TRUE
    /\ InitRest

SpecScripted == InitScripted /\ [][Next]_vars

\* download_molecule(url, output_path, r) running alone against script scr:
\* what it returns and what it leaves at the destination
RECURSIVE Fetch(_, _, _)
Fetch(scr, r, file) ==
    LET resp == scr[r + 1]
        exit == AttemptExit(resp, r)
    IN IF exit = "retry"
       THEN Fetch(scr, r + 1, Written(file, resp))
       ELSE [ok |-> (exit = "True"), file |-> Written(file, resp)]

\* process_link_file running alone on a readable link file, the destination absent
Alone(scr) ==
    LET f == Fetch(scr, 0, NoMol)
        valid == ValidDownload(f.ok, f.file)
    IN [success |-> valid,
        file |-> IF ~valid /\ IsEmptyFile(f.file) THEN NoMol ELSE f.file]

\* the link file of the item could be read
WasRead(i) == result[i].compound_id.ext # TxtExt

\* C9: with the item set and each item's sequence of responses fixed, the run ends,
\* with max_workers = 1 as with max_workers = MAX_WORKERS and under every
\* interleaving, with each item mapped to the outcome, and each destination in the
\* state, that the item's task yields running alone, and with the counts of that mapping.
C9_SameOutcomes ==
    Drained =>
        /\ \A i \in link_files :
              /\ result[i].success = (WasRead(i) /\ Alone(script[i]).success)
              /\ mol[i] = IF WasRead(i) THEN Alone(script[i]).file ELSE NoMol
        /\ successful_downloads =
              Cardinality({i \in link_files : WasRead(i) /\ Alone(script[i]).success})
        /\ failed_downloads =
              Cardinality({i \in link_files : ~(WasRead(i) /\ Alone(script[i]).success)})

C9_Witness ==
    /\ Drained
    /\ max_workers = MAX_WORKERS
    /\ link_files = Ids
    /\ script["id1"] = Repeat4(Empty200)
    /\ script["id2"] = <<ConnectError, Ok200, Ok200, Ok200>>
    /\ ~result["id1"].success /\ WasRead("id1")
    /\ result["id2"].success
    /\ successful_downloads = 1 /\ failed_downloads = 1

\* ------------------------------------------------------------ fair scheduling
\* the steps of the worker thread that runs task i
Task(i) ==
    \/ StartTask(i)
    \/ Throttle(i)
    \/ Request(i)
    \/ Backoff(i)
    \/ ProcessReturn(i)

\* every thread that can take a step eventually takes one; every request ends
Fairness ==
    /\ WF_vars(StartMain)
    /\ WF_vars(WriteSummary)
    /\ \A i \in Items : WF_vars(Task(i)) /\ WF_vars(Collect(i))

\* the scripts under which liveness is checked: retries exhausted by a status, by a
\* broken stream, a success after a retry, an unexpected error after two retries
LiveScripts ==
    {Repeat4(Http404), Repeat4(Cut200),
     <<ConnectError, Ok200, Ok200, Ok200>>,
     <<Cut200, Cut200, Open200, Ok200>>}

InitLive ==
    /\ InitScripted
    /\ \A id \in Ids : script[id] \in LiveScripts

FairSpec == InitLive /\ [][Next]_vars /\ Fairness

\* C10: under fair scheduling every submitted item is eventually collected with
\* its outcome and the run eventually leaves the pool and writes (or fails to
\* write) its summary, whatever the other items meet.
C10_PoolDrains ==
    /\ \A i \in Items : (pc[i] = "queued") ~> (pc[i] = "collected")
    /\ (mainPc = "pool") ~> Drained

C10_Witness ==
    /\ Drained
    /\ \E i, j \in link_files : i # j /\ ~result[i].success /\ result[j].success

\* ---------------------------------------------------------------------------
\* Runs whose OUTPUT_DIRECTORY may be read-only: the link files are there, but
\* nothing can be created in the directory by the download stage.
InitSetup ==
    /\ idFile = <<[text |-> "id1", padded |-> FALSE], [text |-> "id2", padded |-> TRUE]>>
    /\ script \in {f \in [Items -> Scripts \cup {<<>>}] :
                      (f[SummaryStem] = <<>>) /\ (\A id \in Ids : f[id] # <<>>)}
    /\ outputWritable \in BOOLEAN
    /\ InitRest

SpecSetup == InitSetup /\ [][Next]_vars

\* the run of main cannot go on: the link directory cannot be listed, or the
\* output directory cannot be written
SetupError == mainPc = "aborted" \/ (mainPc # "idle" /\ ~outputWritable)

\* C11: a fatal setup error, an unreadable input source or an unwritable output
\* directory, ends the run before any item is dispatched and before any request
\* is made, and no item is counted as failed because of it.
C11_SetupErrorStopsRun ==
    SetupError =>
        /\ \A i \in Items : pc[i] = "none" /\ attempts[i] = 0 /\ ~result[i].done
        /\ failed_downloads = 0
        /\ pbar = 0

\* ---------------------------------------------------------------------------
\* The download script run again over the directory the run before has left:
\* a new process, whose main starts from its own fresh locals.
\* The remote answers the requests of the later run as it answered the earlier one's.
RerunScripts == {<<Ok200>>, <<Cut200, Ok200>>, Repeat4(Http404)}

InitRerun ==
    /\ idFile = <<[text |-> "id1", padded |-> FALSE], [text |-> "id2", padded |-> TRUE]>>
    /\ script \in {f \in [Items -> RerunScripts \cup {<<>>}] :
                      (f[SummaryStem] = <<>>) /\ (\A id \in Ids : f[id] # <<>>)}
    /\ outputWritable = TRUE
    /\ InitRest

Rerun ==
    /\ mainPc \in {"aborted", "empty", "done", "unwritten"}
    /\ run < MaxRuns
    /\ run' = run + 1
    /\ prior' = mol
    /\ mainPc' = "idle"
    /\ link_files' = {}
    /\ total_files' = 0
    /\ successful_downloads' = 0
    /\ failed_downloads' = 0
    /\ pbar' = 0
    /\ pc' = [i \in Items |-> "none"]
    /\ result' = [i \in Items |-> NoResult]
    /\ claims' = [i \in Items |-> 0]
    /\ UNCHANGED <<url, retries, attempts, waits, lastResp, success, throttles>>
    /\ UNCHANGED <<xvars, dirvars, max_workers, script, outputWritable>>

NextRerun == Next \/ Rerun

SpecRerun == InitRerun /\ [][NextRerun]_vars

\* the whole body of a download is at the destination
WholeArtifact(file) == file.exists /\ file.size = BodyBytes

\* C12: when a run meets an item whose destination already holds the artifact
\* of a successful download and the fetch brings the same bytes again, the
\* destination has exactly the content it had before and the item is reported
\* as succeeded again.
C12_RerunSameContent ==
    \A i \in Ids :
        (run > 1 /\ WholeArtifact(prior[OutputPath(i)]) /\ lastResp[i] = Ok200) =>
            /\ pc[i] = "validate" =>
                   mol[OutputPath(i)] = prior[OutputPath(i)]
                   /\ ValidDownload(success[i], mol[OutputPath(i)])
            /\ pc[i] = "returned" =>
                   mol[OutputPath(i)] = prior[OutputPath(i)] /\ result[i].success

C12_Witness ==
    \E i \in Ids :
        /\ run > 1
        /\ WholeArtifact(prior[OutputPath(i)])
        /\ lastResp[i] = Ok200
        /\ pc[i] = "returned"
        /\ result[i].success
        /\ mol[OutputPath(i)] = prior[OutputPath(i)]

\* C19: a second run over the same directory, with the same link records,
\* enumerates the same work items as the first and has the same total: the
\* summary the first run wrote is not itself taken as a work item.
C19_RerunSameItems ==
    (run > 1 /\ mainPc = "pool") =>
        /\ SummaryStem \notin link_files
        /\ link_files = Linked
        /\ summaryFile.exists => total_files = summaryFile.total

\* C13: an item never has more than one request attempt under way: one worker
\* runs its task, and a further attempt goes out only when every earlier
\* attempt has finished and the backoff after it has been slept.
C13_OneAttemptAtATime ==
    \A i \in Items :
        /\ claims[i] <= 1
        /\ retries[i] = Len(waits[i])
        /\ attempts[i] <= Len(waits[i]) + 1
        /\ pc[i] \in {"throttle", "request"} => attempts[i] = Len(waits[i])
        /\ pc[i] = "backoff" => attempts[i] = Len(waits[i]) + 1

C13_Witness ==
    \E i \in Ids :
        /\ pc[i] = "request"
        /\ attempts[i] = MAX_RETRIES
        /\ Len(waits[i]) = MAX_RETRIES
        /\ \E j \in Ids : j # i /\ pc[j] = "request" /\ attempts[j] = 1

\* C14 as the specification has it: a 404 is not retried, the fetch returns
\* failure after the attempt that met it and no backoff wait follows.
C14_NotFoundNotRetried ==
    \A i \in Items :
        lastResp[i] = Http404 => FetchReturned(i) /\ ~success[i]

\* C14: a 404 is retried like every other status that is not 200: while fewer
\* than MAX_RETRIES retries have been made the attempt is followed by a backoff
\* wait and another request, and the fetch returns failure on a 404 only at
\* attempt MAX_RETRIES + 1.
C14_NotFoundRetried ==
    \A i \in Items :
        lastResp[i] = Http404 =>
            /\ retries[i] < MAX_RETRIES => pc[i] = "backoff"
            /\ retries[i] = MAX_RETRIES =>
                   FetchReturned(i) /\ ~success[i] /\ attempts[i] = MAX_RETRIES + 1

C14_Witness ==
    \E i \in Ids :
        /\ lastResp[i] = Http404
        /\ pc[i] = "backoff"
        /\ attempts[i] = 1
        /\ waits[i] = <<>>

\* the loop of process_ids has gone through every line of the id file
LoopOver == xpc = "loop" /\ idx = Len(ids)

\* the lines of the id file that are not blank
NonBlank == {k \in 1 .. Len(ids) : ids[k] # ""}

C16_SleepsBeforeRequest ==
    \A i \in Items :
        /\ Len(waits[i]) <= attempts[i]
        /\ attempts[i] <= throttles[i]
        /\ throttles[i] <= Len(waits[i]) + 1
        /\ pc[i] = "request" => throttles[i] = attempts[i] + 1
        /\ pc[i] # "request" => throttles[i] = attempts[i]
        /\ pc[i] = "throttle" => Len(waits[i]) = attempts[i]

C16_Witness ==
    \E i \in Ids :
        /\ pc[i] = "request"
        /\ attempts[i] = 2
        /\ Len(waits[i]) = 2
        /\ throttles[i] = 3

\* C17: the items being processed at any time are at most as many as the
\* workers of the pool, which are at most MAX_WORKERS, and the task of an item
\* is taken by one worker only.
C17_BoundedWorkers ==
    /\ Cardinality(Running) <= max_workers
    /\ max_workers <= MAX_WORKERS
    /\ \A i \in Items :
          /\ claims[i] <= 1
          /\ i \in Running => claims[i] = 1
          /\ pc[i] \in {"none", "queued"} => claims[i] = 0

C17_Witness ==
    /\ max_workers = 1
    /\ \E i, j \in Ids :
          /\ i # j
          /\ pc[i] = "backoff"
          /\ pc[j] = "queued"
          /\ claims[i] = 1

\* the outcomes main has counted
Counted == {i \in Items : pc[i] = "collected"}

\* C18: at every point of a run the progress counter is the sum of the
\* succeeded and the failed counts and at most the total; the counts are changed
\* only by main's collecting loop, which for every outcome it takes adds one to
\* the count the outcome names and one to the progress counter, and no count
\* ever goes down.
C18_Counters ==
    /\ [](mainPc \in {"pool", "done", "unwritten"} =>
            /\ pbar = successful_downloads + failed_downloads
            /\ pbar <= total_files
            /\ pbar = Cardinality(Counted)
            /\ successful_downloads = Cardinality({i \in Counted : result[i].success}))
    /\ [][<<successful_downloads, failed_downloads, pbar>>' #
             <<successful_downloads, failed_downloads, pbar>> =>
                \E i \in Items :
                    /\ pc[i] = "returned"
                    /\ pc'[i] = "collected"
                    /\ \A j \in Items : j # i => pc'[j] = pc[j]
                    /\ pbar' = pbar + 1
                    /\ successful_downloads' =
                           successful_downloads + (IF result[i].success THEN 1 ELSE 0)
                    /\ failed_downloads' =
                           failed_downloads + (IF result[i].success THEN 0 ELSE 1)]_vars

C18_Witness ==
    /\ mainPc = "pool"
    /\ total_files = 2
    /\ pbar = 1
    /\ failed_downloads = 1
    /\ \E i \in Ids : pc[i] = "request" /\ attempts[i] = 1

\* C20: an error that is not a network error, such as the destination that
\* cannot be opened for writing, ends the fetch at once with a failure result:
\* no backoff and no further attempt follow, whatever retries remain, and
\* process_link_file returns the item's identifier with failure, so the error
\* does not leave the fetch.
C20_UnexpectedErrorEndsFetch ==
    \A i \in Items :
        lastResp[i].fault = "open" =>
            /\ FetchReturned(i)
            /\ ~success[i]
            /\ attempts[i] = retries[i] + 1
            /\ pc[i] = "returned" => result[i] = Returned(Identifier(i), FALSE)

C20_Witness ==
    \E i \in Ids :
        /\ lastResp[i].fault = "open"
        /\ retries[i] = 0
        /\ attempts[i] = 1
        /\ pc[i] = "returned"
        /\ result[i] = Returned(Identifier(i), FALSE)

====
